---- MODULE Spec2Model ----
(***************************************************************************)
(* The idempotent volume service of the Hetzner Cloud CSI driver           *)
(* (volumes.IdempotentService) on top of the API volume service            *)
(* (api.VolumeService), which talks to the hcloud backend.  Every hcloud   *)
(* client call is one atomic step; callers run concurrently and interleave *)
(* between the client calls.                                               *)
(***************************************************************************)
EXTENDS Integers, FiniteSets, Sequences, TLC

\* ---------------------------------------------------------------- bounds
MaxVolumes == 2          \* volume IDs the backend hands out: 1..MaxVolumes
MaxSize == 2             \* volume sizes range over 1..MaxSize

VolIds == 1..MaxVolumes
Sizes == 1..MaxSize
Names == {"data"}
Locations == {"fsn1", "nbg1"}
Servers == {1, 2}                 \* servers that exist in the backend
ServerIds == Servers \cup {3}     \* server 3 does not exist
Procs == {1, 2}                   \* callers of the idempotent service

\* ---------------------------------------------------------------- errors
Nil == "nil"
ErrVolumeAlreadyExists == "ErrVolumeAlreadyExists"
ErrVolumeNotFound == "ErrVolumeNotFound"
ErrServerNotFound == "ErrServerNotFound"
ErrNotAttached == "ErrNotAttached"
ErrAlreadyAttached == "ErrAlreadyAttached"
ErrAttachLimitReached == "ErrAttachLimitReached"
\* Errors of the hcloud client that the volume service passes through
\* unchanged, named after the client call that returned them.
HcloudErr(site) == "hcloud error: " \o site
\* a field that holds no value yet (the call has not been made)
None == "none"

\* What the hcloud client hands to the volume service: errors with a code
\* that the volume service tests for, errors it does not know (HcloudErr),
\* and a nil volume or server with no error.
UniquenessError == "hcloud: uniqueness_error"
NotFoundError == "hcloud: not_found"
LimitExceededError == "hcloud: limit_exceeded_error"
NilVolume == "nil volume"
NilServer == "nil server"
ErrorCodes == {UniquenessError, NotFoundError, LimitExceededError}

\* the results of the volume service's methods that a call keeps
ErrFields == {"createErr", "getErr", "detErr", "attErr", "delErr"}

\* mutant: a not-found error counts as a missing volume wherever it comes from
VolumeError_NotFoundAnywhere(site, raw) ==
    IF raw = Nil THEN Nil
    ELSE IF raw = NilVolume THEN ErrVolumeNotFound
    ELSE IF raw = NilServer THEN ErrServerNotFound
    ELSE IF site = "Volume.Create" /\ raw = UniquenessError THEN ErrVolumeAlreadyExists
    ELSE IF raw = NotFoundError THEN ErrVolumeNotFound
    ELSE IF site = "Volume.Attach" /\ raw = LimitExceededError THEN ErrAttachLimitReached
    ELSE raw

\* VolumeService: the error a method returns for what the client call at
\* site handed it
VolumeError(site, raw) ==
    IF raw = Nil THEN Nil
    ELSE IF raw = NilVolume THEN ErrVolumeNotFound
    ELSE IF raw = NilServer THEN ErrServerNotFound
    ELSE IF site = "Volume.Create" /\ raw = UniquenessError THEN ErrVolumeAlreadyExists
    ELSE IF site = "Volume.Delete" /\ raw = NotFoundError THEN ErrVolumeNotFound
    ELSE IF site = "Volume.Attach" /\ raw = LimitExceededError THEN ErrAttachLimitReached
    ELSE raw

VARIABLES
    vols,      \* backend: [VolIds -> volume record]; live = FALSE: no such volume
    nextId,    \* backend: the next volume ID to hand out
    work,      \* the workload: who calls, and with which options (fixed by Init)
    pc,        \* per caller: position inside the current call
    call,      \* per caller: the current (or last finished) call and its locals
    last,      \* summary of the call that returned most recently
    life,      \* progress of a replayed lifecycle (0: none)
    boot,      \* the process: main's position, environment and readiness
    sanity     \* the volume list of the in-memory backend of the sanity test

vars == <<vols, nextId, work, pc, call, last, life, boot, sanity>>

NoVolume == [live |-> FALSE, name |-> "", size |-> 0, loc |-> "", servers |-> {}]

\* hcloud.Volume.Server as the volume service reads it: 0 stands for nil
AttachedServer(v) ==
    IF vols[v].live /\ vols[v].servers # {}
    THEN CHOOSE s \in vols[v].servers : TRUE
    ELSE 0

LiveByName(n) == {v \in VolIds : vols[v].live /\ vols[v].name = n}

NoCall ==
    [op |-> None, name |-> "", minSize |-> 0, maxSize |-> 0, loc |-> "",
     v |-> 0, s |-> 0, from |-> 0, read |-> 0,
     created |-> 0, found |-> 0, foundSize |-> 0, foundLoc |-> "", pre |-> 0,
     createErr |-> None, getErr |-> None, detErr |-> None,
     attErr |-> None, delErr |-> None,
     err |-> None, id |-> 0,
     act |-> None, status |-> None,
     detCalls |-> 0, attCalls |-> 0, cleanups |-> 0, cleanupErr |-> None,
     raws |-> [f \in ErrFields |-> None], sites |-> [f \in ErrFields |-> None],
     alone |-> TRUE,
     fault |-> FALSE, replay |-> FALSE]

NoLast == [op |-> None, name |-> "", minSize |-> 0, maxSize |-> 0, loc |-> "",
           v |-> 0, s |-> 0, err |-> None, id |-> 0]

Summary(c) ==
    [op |-> c.op, name |-> c.name, minSize |-> c.minSize, maxSize |-> c.maxSize,
     loc |-> c.loc, v |-> c.v, s |-> c.s, err |-> c.err, id |-> c.id]

Idle(p) == pc[p] = "idle"
AllIdle == \A p \in Procs : Idle(p)

\* ------------------------------------------------- idempotency decisions

\* mutant: the existing volume's size is not compared with minSize
CreateReplayResult_NoMinCheck(found, size, loc, minSize, maxSize, wantLoc) ==
    IF found = 0 THEN ErrVolumeAlreadyExists
    ELSE IF maxSize > 0 /\ size > maxSize THEN ErrVolumeAlreadyExists
    ELSE IF loc # wantLoc THEN ErrVolumeAlreadyExists
    ELSE Nil

\* mutant: maxSize = 0 is taken as a bound like any other
CreateReplayResult_ZeroIsBound(found, size, loc, minSize, maxSize, wantLoc) ==
    IF found = 0 THEN ErrVolumeAlreadyExists
    ELSE IF size < minSize THEN ErrVolumeAlreadyExists
    ELSE IF size > maxSize THEN ErrVolumeAlreadyExists
    ELSE IF loc # wantLoc THEN ErrVolumeAlreadyExists
    ELSE Nil

\* IdempotentService.Create, the validation of an existing volume with the
\* requested name (found = 0: GetByName returned no volume and no error)
CreateReplayResult(found, size, loc, minSize, maxSize, wantLoc) ==
    IF found = 0 THEN ErrVolumeAlreadyExists
    ELSE IF size < minSize THEN ErrVolumeAlreadyExists
    ELSE IF maxSize > 0 /\ size > maxSize THEN ErrVolumeAlreadyExists
    ELSE IF loc # wantLoc THEN ErrVolumeAlreadyExists
    ELSE Nil

\* mutant: a volume that is already gone makes Delete fail
IdemDeleteResult_NotFoundFails(err) ==
    IF err = Nil THEN Nil
    ELSE err

\* IdempotentService.Delete: the switch over the backend delete's error
IdemDeleteResult(err) ==
    IF err = ErrVolumeNotFound THEN Nil
    ELSE IF err = Nil THEN Nil
    ELSE err

\* mutant: a volume that is not attached makes Detach fail
IdemDetachResult_NotAttachedFails(err) ==
    IF err = Nil THEN Nil
    ELSE err

\* IdempotentService.Detach: the switch over the backend detach's error
IdemDetachResult(err) ==
    IF err = ErrNotAttached THEN Nil
    ELSE IF err = Nil THEN Nil
    ELSE err

\* mutant: Attach detaches whenever the pre-read shows the volume attached
NeedsDetach_Attached(pre, s) == pre # 0

\* IdempotentService.Attach: detach first when the pre-read shows the volume
\* attached to another server (pre = 0: vol.Server == nil)
NeedsDetach(pre, s) == pre # 0 /\ pre # s

\* mutant: a failed backend attach is always reported
IdemAttachResult_NoReplay(pre, s, attachErr) ==
    IF attachErr = Nil THEN Nil
    ELSE attachErr

\* mutant: a failed backend attach is forgiven whenever the pre-read showed
\* the volume attached, to whichever server
IdemAttachResult_AnyServer(pre, s, attachErr) ==
    IF attachErr = Nil THEN Nil
    ELSE IF pre # 0 THEN Nil
    ELSE attachErr

\* mutant: an attach refused for the attach limit is reported as success
IdemAttachResult_LimitForgiven(pre, s, attachErr) ==
    IF attachErr = Nil THEN Nil
    ELSE IF pre # 0 /\ pre = s THEN Nil
    ELSE IF attachErr = ErrAttachLimitReached THEN Nil
    ELSE attachErr

\* IdempotentService.Attach: the result after the backend attach returned
IdemAttachResult(pre, s, attachErr) ==
    IF attachErr = Nil THEN Nil
    ELSE IF pre # 0 /\ pre = s THEN Nil
    ELSE attachErr

\* ------------------------------------------------------ call bookkeeping

\* calls that are under way for the same volume ID as rec (Create has none)
Overlapping(p, rec) ==
    {q \in Procs \ {p} : ~Idle(q) /\ rec.v # 0 /\ call[q].v = rec.v}

\* The caller p enters a call.  With one caller the call is a replay when it
\* repeats, with the same arguments, the successful call that returned last.
\* A call is alone as long as no other call for its volume overlaps with it.
Begin(p, rec, label) ==
    /\ boot.serving
    /\ p \in work.callers
    /\ Idle(p)
    /\ call' = [q \in Procs |->
                  IF q = p
                  THEN [rec EXCEPT !.alone = Overlapping(p, rec) = {},
                                   !.replay = /\ work.track
                                              /\ last.err = Nil
                                              /\ last.op = rec.op
                                              /\ last.name = rec.name
                                              /\ last.minSize = rec.minSize
                                              /\ last.maxSize = rec.maxSize
                                              /\ last.loc = rec.loc
                                              /\ last.v = rec.v
                                              /\ last.s = rec.s]
                  ELSE IF q \in Overlapping(p, rec)
                  THEN [call[q] EXCEPT !.alone = FALSE]
                  ELSE call[q]]
    /\ pc' = [pc EXCEPT ![p] = label]
    /\ UNCHANGED <<vols, nextId, work, last, life, boot, sanity>>

\* The call of p has its result; it returns in a step of its own.
Finish(p, c, e, id) ==
    /\ call' = [call EXCEPT ![p] = [c EXCEPT !.err = e, !.id = id]]
    /\ pc' = [pc EXCEPT ![p] = "return"]

Step(p, c, label) ==
    /\ call' = [call EXCEPT ![p] = c]
    /\ pc' = [pc EXCEPT ![p] = label]

Faulted(c) == [c EXCEPT !.fault = TRUE]

\* a method of the volume service returns into field f of the call, after
\* the client call at site handed it raw
Got(c, f, site, raw) ==
    [c EXCEPT ![f] = VolumeError(site, raw), !.raws[f] = raw, !.sites[f] = site]

\* the errors the backend may answer a client call at site with, for no
\* reason the model knows: one without a code the volume service tests for,
\* and the codes of the workload other than the one the backend's state
\* decides at that site
Injected(site, decided) == {HcloudErr(site)} \cup (work.codes \ {decided})

\* ------------------------------------------------------ backend actions

\* the backend accepted a call and started an asynchronous action for it
Started(c, kind) == [c EXCEPT !.act = kind, !.status = "running"]

\* mutant: the action is not awaited, the call goes on as if it had succeeded
WatchProgress_NoWait(status, site) ==
    IF status = "error" THEN {HcloudErr(site)}
    ELSE {Nil}

\* <-errCh of client.Action.WatchProgress: what the volume service gets once
\* the action is over; nothing while it is running
WatchProgress(status, site) ==
    IF status = "success" THEN {Nil}
    ELSE IF status = "error" THEN {HcloudErr(site)}
    ELSE {}

\* ------------------------------------------------------------- Create

StartCreate(p) ==
    \E n \in Names, mn \in work.minSizes, mx \in work.maxSizes,
       l \in work.locations :
        Begin(p, [NoCall EXCEPT !.op = "Create", !.name = n, !.minSize = mn,
                                !.maxSize = mx, !.loc = l], "create")

\* IdempotentService.Create after volumeService.Create returned err
AfterCreate(p, c, id) ==
    IF c.createErr = Nil THEN Finish(p, c, Nil, id)
    ELSE IF c.createErr = ErrVolumeAlreadyExists THEN Step(p, c, "lookup")
    ELSE Finish(p, c, c.createErr, 0)

\* VolumeService.Create: client.Volume.Create
CreateCall(p) ==
    /\ pc[p] = "create"
    /\ LET c == call[p] IN
       \/ /\ LiveByName(c.name) # {}            \* uniqueness_error
          /\ AfterCreate(p, Got(c, "createErr", "Volume.Create", UniquenessError), 0)
          /\ UNCHANGED <<vols, nextId>>
       \/ /\ \E raw \in Injected("Volume.Create", UniquenessError) :
                AfterCreate(p, Faulted(Got(c, "createErr", "Volume.Create", raw)), 0)
          /\ UNCHANGED <<vols, nextId>>
       \/ /\ LiveByName(c.name) = {}
          /\ nextId <= MaxVolumes
          /\ vols' = [vols EXCEPT ![nextId] =
                        [live |-> TRUE, name |-> c.name, size |-> c.minSize,
                         loc |-> c.loc, servers |-> {}]]
          /\ nextId' = nextId + 1
          /\ Step(p, Started([c EXCEPT !.created = nextId], "create"), "createWatch")
    /\ UNCHANGED <<work, last, life, boot, sanity>>

\* mutant: the volume of a failed create action is left behind
AfterCreateAction_NoCleanup(p, c) == AfterCreate(p, c, IF c.createErr = Nil THEN c.created ELSE 0)

\* VolumeService.Create after the wait for the create action: a failed action
\* has its volume deleted before the error is returned
AfterCreateAction(p, c) ==
    IF c.createErr = Nil THEN AfterCreate(p, c, c.created)
    ELSE Step(p, c, "createCleanup")

\* VolumeService.Create: the create action is awaited
CreateWatch(p) ==
    /\ pc[p] = "createWatch"
    /\ LET c == call[p] IN
       \E e \in WatchProgress(c.status, "Action.Create") :
          IF e = Nil
          THEN AfterCreateAction(p, Got(c, "createErr", "Action.Create", e))
          ELSE AfterCreateAction(p, Faulted(Got(c, "createErr", "Action.Create", e)))
    /\ UNCHANGED <<vols, nextId, work, last, life, boot, sanity>>

\* VolumeService.Create: the volume of a failed action is deleted, result ignored
CreateCleanup(p) ==
    /\ pc[p] = "createCleanup"
    /\ LET c == [call[p] EXCEPT !.cleanups = @ + 1] IN
       \/ /\ vols[c.created].live
          /\ vols[c.created].servers = {}
          /\ vols' = [vols EXCEPT ![c.created] = NoVolume]
          /\ AfterCreate(p, [c EXCEPT !.cleanupErr = Nil], 0)
       \/ /\ UNCHANGED vols
          /\ AfterCreate(p, [c EXCEPT !.cleanupErr = HcloudErr("Volume.Delete")], 0)
    /\ UNCHANGED <<nextId, work, last, life, boot, sanity>>

\* IdempotentService.Create: GetByName and the validation of what it found
CreateLookup(p) ==
    /\ pc[p] = "lookup"
    /\ LET c == call[p] IN
       \/ LET d == Faulted(Got(c, "getErr", "Volume.GetByName", HcloudErr("Volume.GetByName")))
          IN Finish(p, d, d.getErr, 0)
       \/ /\ LiveByName(c.name) = {}
          /\ LET d == Got(c, "getErr", "Volume.GetByName", NilVolume)
             IN Finish(p, d, d.getErr, 0)
       \/ \E v \in LiveByName(c.name) :
             LET r == CreateReplayResult(v, vols[v].size, vols[v].loc,
                                         c.minSize, c.maxSize, c.loc)
                 d == Got(c, "getErr", "Volume.GetByName", Nil)
             IN Finish(p, [d EXCEPT !.found = v,
                                    !.foundSize = vols[v].size,
                                    !.foundLoc = vols[v].loc],
                       r, IF r = Nil THEN v ELSE 0)
    /\ UNCHANGED <<vols, nextId, work, last, life, boot, sanity>>

\* --------------------------------------------- VolumeService.Detach

\* mutant: Delete gives up when its detach fails
AfterDetach_DeleteGivesUp(p, c) ==
    IF c.op = "Delete"
    THEN IF c.detErr \in {Nil, ErrNotAttached}
         THEN Step(p, c, "delete")
         ELSE Finish(p, c, c.detErr, 0)
    ELSE IF c.op = "Attach" THEN Step(p, c, "attachGet")
    ELSE IF c.op = "DetachFrom" THEN Finish(p, c, c.detErr, 0)
    ELSE Finish(p, c, IdemDetachResult(c.detErr), 0)

\* where the caller of volumeService.Detach goes on with the error it got
AfterDetach(p, c) ==
    IF c.op = "Delete" THEN Step(p, c, "delete")
    ELSE IF c.op = "Attach" THEN Step(p, c, "attachGet")
    ELSE IF c.op = "DetachFrom" THEN Finish(p, c, c.detErr, 0)
    ELSE Finish(p, c, IdemDetachResult(c.detErr), 0)

\* VolumeService.Detach: client.Volume.GetByID and the checks on what it read
DetachGet(p) ==
    /\ pc[p] = "detachGet"
    /\ LET c == [call[p] EXCEPT !.detCalls = @ + 1] IN
       \/ AfterDetach(p, Faulted(Got(c, "detErr", "Volume.GetByID",
                                      HcloudErr("Volume.GetByID in Detach"))))
       \/ /\ ~vols[c.v].live
          /\ AfterDetach(p, Got(c, "detErr", "Volume.GetByID", NilVolume))
       \/ /\ vols[c.v].live
          /\ AttachedServer(c.v) = 0
          /\ AfterDetach(p, [c EXCEPT !.detErr = ErrNotAttached])
       \/ /\ vols[c.v].live
          /\ AttachedServer(c.v) # 0
          /\ IF c.from = 0
             THEN Step(p, c, "detachCall")
             ELSE Step(p, [c EXCEPT !.read = AttachedServer(c.v)], "detachServer")
    /\ UNCHANGED <<vols, nextId, work, last, life, boot, sanity>>

\* mutant: the volume is detached from whichever server it is attached to
ScopedDetachResult_AnyServer(read, from) ==
    IF from \notin Servers THEN ErrServerNotFound
    ELSE Nil

\* VolumeService.Detach with a server: the checks after Server.GetByID
\* (read: the server the volume was read as attached to)
ScopedDetachResult(read, from) ==
    IF from \notin Servers THEN ErrServerNotFound
    ELSE IF read # from THEN ErrAlreadyAttached
    ELSE Nil

\* VolumeService.Detach with a server: client.Server.GetByID and the checks
DetachServer(p) ==
    /\ pc[p] = "detachServer"
    /\ LET c == call[p]
           e == ScopedDetachResult(c.read, c.from)
       IN
       \/ AfterDetach(p, Faulted(Got(c, "detErr", "Server.GetByID",
                                      HcloudErr("Server.GetByID in Detach"))))
       \/ IF e = Nil
          THEN Step(p, c, "detachCall")
          ELSE AfterDetach(p, [c EXCEPT !.detErr = e])
    /\ UNCHANGED <<vols, nextId, work, last, life, boot, sanity>>

\* VolumeService.Detach: client.Volume.Detach
DetachCall(p) ==
    /\ pc[p] = "detachCall"
    /\ LET c == call[p] IN
       \/ \E raw \in Injected("Volume.Detach", None) :
             AfterDetach(p, Faulted(Got(c, "detErr", "Volume.Detach", raw)))
       \/ /\ AttachedServer(c.v) = 0            \* gone or detached meanwhile
          /\ AfterDetach(p, Got(c, "detErr", "Volume.Detach", HcloudErr("Volume.Detach")))
       \/ /\ AttachedServer(c.v) # 0
          /\ Step(p, Started(c, "detach"), "detachWatch")
    /\ UNCHANGED <<vols, nextId, work, last, life, boot, sanity>>

\* VolumeService.Detach: the detach action is awaited
DetachWatch(p) ==
    /\ pc[p] = "detachWatch"
    /\ LET c == call[p] IN
       \E e \in WatchProgress(c.status, "Action.Detach") :
          IF e = Nil
          THEN AfterDetach(p, Got(c, "detErr", "Action.Detach", e))
          ELSE AfterDetach(p, Faulted(Got(c, "detErr", "Action.Detach", e)))
    /\ UNCHANGED <<vols, nextId, work, last, life, boot, sanity>>

\* ------------------------------------------------------------- Delete

StartDelete(p) ==
    \E v \in VolIds :
        Begin(p, [NoCall EXCEPT !.op = "Delete", !.v = v], "detachGet")

\* VolumeService.Delete, and IdempotentService.Delete's switch over its error
DeleteCall(p) ==
    /\ pc[p] = "delete"
    /\ LET c == call[p]
           done(raw, f) ==
               LET d == [Got(c, "delErr", "Volume.Delete", raw) EXCEPT !.fault = c.fault \/ f]
               IN Finish(p, d, IdemDeleteResult(d.delErr), 0)
       IN
       \/ /\ \E raw \in Injected("Volume.Delete", NotFoundError) : done(raw, TRUE)
          /\ UNCHANGED vols
       \/ /\ ~vols[c.v].live                    \* not_found
          /\ done(NotFoundError, FALSE)
          /\ UNCHANGED vols
       \/ /\ vols[c.v].live                     \* still attached: refused
          /\ vols[c.v].servers # {}
          /\ done(HcloudErr("Volume.Delete"), FALSE)
          /\ UNCHANGED vols
       \/ /\ vols[c.v].live
          /\ vols[c.v].servers = {}
          /\ vols' = [vols EXCEPT ![c.v] = NoVolume]
          /\ done(Nil, FALSE)
    /\ UNCHANGED <<nextId, work, last, life, boot, sanity>>

\* ------------------------------------------------------------- Detach

StartDetach(p) ==
    \E v \in VolIds :
        Begin(p, [NoCall EXCEPT !.op = "Detach", !.v = v], "detachGet")

\* a call of VolumeService.Detach that names the server to detach from
StartDetachFrom(p) ==
    \E v \in VolIds, s \in work.froms :
        Begin(p, [NoCall EXCEPT !.op = "DetachFrom", !.v = v, !.from = s], "detachGet")

\* ------------------------------------------------------------- Attach

StartAttach(p) ==
    \E v \in VolIds, s \in work.servers :
        Begin(p, [NoCall EXCEPT !.op = "Attach", !.v = v, !.s = s], "attachPre")

\* mutant: Attach goes on although its pre-read failed
AfterPreRead_IgnoresError(p, c) ==
    IF NeedsDetach(c.pre, c.s) THEN Step(p, c, "detachGet")
    ELSE Step(p, c, "attachGet")

\* IdempotentService.Attach after its pre-read returned: an error ends the
\* call, otherwise the volume is detached first if it has to be
AfterPreRead(p, c) ==
    IF c.getErr # Nil THEN Finish(p, c, c.getErr, 0)
    ELSE IF NeedsDetach(c.pre, c.s) THEN Step(p, c, "detachGet")
    ELSE Step(p, c, "attachGet")

\* IdempotentService.Attach: the pre-read by volumeService.GetByID
AttachPre(p) ==
    /\ pc[p] = "attachPre"
    /\ LET c == call[p] IN
       \/ AfterPreRead(p, Faulted(Got(c, "getErr", "Volume.GetByID", HcloudErr("Volume.GetByID"))))
       \/ /\ ~vols[c.v].live
          /\ AfterPreRead(p, Got(c, "getErr", "Volume.GetByID", NilVolume))
       \/ /\ vols[c.v].live
          /\ AfterPreRead(p, [Got(c, "getErr", "Volume.GetByID", Nil)
                                  EXCEPT !.pre = AttachedServer(c.v)])
    /\ UNCHANGED <<vols, nextId, work, last, life, boot, sanity>>

\* IdempotentService.Attach after volumeService.Attach returned
AfterAttach(p, c) == Finish(p, c, IdemAttachResult(c.pre, c.s, c.attErr), 0)

\* VolumeService.Attach: the volume and the server are fetched
AttachGet(p) ==
    /\ pc[p] = "attachGet"
    /\ LET c == [call[p] EXCEPT !.attCalls = @ + 1] IN
       \/ AfterAttach(p, Faulted(Got(c, "attErr", "Volume.GetByID",
                                      HcloudErr("Volume.GetByID in Attach"))))
       \/ /\ ~vols[c.v].live
          /\ AfterAttach(p, Got(c, "attErr", "Volume.GetByID", NilVolume))
       \/ /\ vols[c.v].live
          /\ AfterAttach(p, Faulted(Got(c, "attErr", "Server.GetByID",
                                         HcloudErr("Server.GetByID"))))
       \/ /\ vols[c.v].live
          /\ c.s \notin Servers
          /\ AfterAttach(p, Got(c, "attErr", "Server.GetByID", NilServer))
       \/ /\ vols[c.v].live
          /\ c.s \in Servers
          /\ Step(p, c, "attachCall")
    /\ UNCHANGED <<vols, nextId, work, last, life, boot, sanity>>

\* mutant: the backend attaches a volume that is attached to another server
BackendAllowsAttach_AnyTime(v, s) == vols[v].live

\* The backend accepts an attach of v to s only if v is attached to no other
\* server (its single-attach rule).
BackendAllowsAttach(v, s) == vols[v].live /\ vols[v].servers \subseteq {s}

\* VolumeService.Attach: client.Volume.Attach
AttachCall(p) ==
    /\ pc[p] = "attachCall"
    /\ LET c == call[p] IN
       \/ AfterAttach(p, Faulted(Got(c, "attErr", "Volume.Attach", LimitExceededError)))
       \/ \E raw \in Injected("Volume.Attach", LimitExceededError) :
             AfterAttach(p, Faulted(Got(c, "attErr", "Volume.Attach", raw)))
       \/ /\ ~(vols[c.v].live /\ vols[c.v].servers = {})   \* refused
          /\ AfterAttach(p, Got(c, "attErr", "Volume.Attach", HcloudErr("Volume.Attach")))
       \/ /\ BackendAllowsAttach(c.v, c.s)
          /\ Step(p, Started(c, "attach"), "attachWatch")
    /\ UNCHANGED <<vols, nextId, work, last, life, boot, sanity>>

\* VolumeService.Attach: the attach action is awaited
AttachWatch(p) ==
    /\ pc[p] = "attachWatch"
    /\ LET c == call[p] IN
       \E e \in WatchProgress(c.status, "Action.Attach") :
          IF e = Nil
          THEN AfterAttach(p, Got(c, "attErr", "Action.Attach", e))
          ELSE AfterAttach(p, Faulted(Got(c, "attErr", "Action.Attach", e)))
    /\ UNCHANGED <<vols, nextId, work, last, life, boot, sanity>>

\* ---------------------------------------------------- the backend's side

\* The backend brings the action it started for p's call to its terminal
\* status.  An attach or detach takes effect when its action succeeds.
ActionCompletes(p) ==
    /\ call[p].status = "running"
    /\ LET c == call[p]
           done(st) == call' = [call EXCEPT ![p] = [c EXCEPT !.status = st]]
       IN
       \/ /\ c.act = "create"
          /\ done("success")
          /\ UNCHANGED vols
       \/ /\ c.act = "attach"
          /\ BackendAllowsAttach(c.v, c.s)
          /\ vols' = [vols EXCEPT ![c.v].servers = @ \cup {c.s}]
          /\ done("success")
       \/ /\ c.act = "detach"
          /\ vols[c.v].live
          /\ vols' = [vols EXCEPT ![c.v].servers = {}]
          /\ done("success")
       \/ /\ done("error")
          /\ UNCHANGED vols
    /\ UNCHANGED <<nextId, work, pc, last, life, boot, sanity>>

\* ------------------------------------------------------------- return

\* Progress of a replayed lifecycle Create, Create, Attach, Attach, Detach,
\* Detach, Delete, Delete on one volume, by calls of one caller that met no
\* backend failure: the stage that the returning call c reaches.
NextLife(c) ==
    IF ~work.track \/ c.fault THEN 0
    ELSE IF c.op = "Create" /\ life = 1 /\ c.replay THEN 2
    ELSE IF c.op = "Create" /\ c.createErr = Nil THEN 1
    ELSE IF c.op = "Attach" /\ life = 2 /\ c.v = last.id /\ c.s \in Servers THEN 3
    ELSE IF c.op = "Attach" /\ life = 3 /\ c.replay THEN 4
    ELSE IF c.op = "Detach" /\ life = 4 /\ c.v = last.v THEN 5
    ELSE IF c.op = "Detach" /\ life = 5 /\ c.replay THEN 6
    ELSE IF c.op = "Delete" /\ life = 6 /\ c.v = last.v THEN 7
    ELSE IF c.op = "Delete" /\ life = 7 /\ c.replay THEN 8
    ELSE 0

Return(p) ==
    /\ pc[p] = "return"
    /\ pc' = [pc EXCEPT ![p] = "idle"]
    /\ last' = IF work.track /\ call[p].err = Nil THEN Summary(call[p]) ELSE NoLast
    /\ life' = NextLife(call[p])
    /\ call' = [call EXCEPT ![p] = NoCall]
    /\ UNCHANGED <<vols, nextId, work, boot, sanity>>

\* ------------------------------------------------------------- main

\* what main reads from its environment
Endpoints == {"", "tcp://csi", "unix://csi.sock"}          \* CSI_ENDPOINT
Tokens == {"", "token"}                                    \* HCLOUD_TOKEN
ServerIdEnvs == {"", "1", "2", "x"}                        \* HCLOUD_SERVER_ID

\* the process before main's first statement; no identity service exists yet,
\* so nothing reports ready
Booting(endpoint, token, serverIdEnv) ==
    [pc |-> "endpoint", endpoint |-> endpoint, token |-> token,
     serverIdEnv |-> serverIdEnv, socket |-> "unknown", serverID |-> 0,
     server |-> "none", ready |-> FALSE, serving |-> FALSE, exit |-> "none"]

\* os.Exit(code), or the runtime's exit after a panic
Exit(b, code) == [b EXCEPT !.pc = "exited", !.exit = code, !.serving = FALSE]

\* driver.NewIdentityService: the new service does not report ready
NewIdentityService == FALSE

\* IdentityService.SetReady
SetReady(b, ready) == [b EXCEPT !.ready = ready]

\* main: CSI_ENDPOINT must be set and name a unix socket
MainEndpoint ==
    /\ boot.pc = "endpoint"
    /\ boot' = IF boot.endpoint = "" THEN Exit(boot, "2")
               ELSE IF boot.endpoint # "unix://csi.sock" THEN Exit(boot, "2")
               ELSE [boot EXCEPT !.pc = "socket"]
    /\ UNCHANGED <<vols, nextId, work, pc, call, last, life, sanity>>

\* main: a stale socket file is removed; a missing one is fine
MainSocket ==
    /\ boot.pc = "socket"
    /\ \/ boot' = [boot EXCEPT !.pc = "token", !.socket = "removed"]
       \/ boot' = [boot EXCEPT !.pc = "token", !.socket = "absent"]
       \/ boot' = Exit([boot EXCEPT !.socket = "stuck"], "1")
    /\ UNCHANGED <<vols, nextId, work, pc, call, last, life, sanity>>

\* main: HCLOUD_TOKEN must be set
MainToken ==
    /\ boot.pc = "token"
    /\ boot' = IF boot.token = "" THEN Exit(boot, "2")
               ELSE [boot EXCEPT !.pc = "serverID"]
    /\ UNCHANGED <<vols, nextId, work, pc, call, last, life, sanity>>

\* getServerID: HCLOUD_SERVER_ID if set, else the metadata service
MainServerID ==
    /\ boot.pc = "serverID"
    /\ IF boot.serverIdEnv # ""
       THEN boot' = IF boot.serverIdEnv = "1" THEN [boot EXCEPT !.pc = "fetch", !.serverID = 1]
                    ELSE IF boot.serverIdEnv = "2" THEN [boot EXCEPT !.pc = "fetch", !.serverID = 2]
                    ELSE Exit(boot, "1")                       \* strconv.Atoi fails
       ELSE \/ \E id \in ServerIds : boot' = [boot EXCEPT !.pc = "fetch", !.serverID = id]
            \/ boot' = Exit(boot, "1")                         \* getInstanceID fails
    /\ UNCHANGED <<vols, nextId, work, pc, call, last, life, sanity>>

\* mutant: a failed server lookup does not stop main
FetchedServer_IgnoresError(b, outcome) ==
    IF outcome = "nil" THEN Exit([b EXCEPT !.server = outcome], "panic")
    ELSE [b EXCEPT !.pc = "listen", !.server = outcome, !.ready = NewIdentityService]

\* main after hcloudClient.Server.GetByID returned: an error exits, a nil
\* server panics at server.Name, otherwise the services are constructed
FetchedServer(b, outcome) ==
    IF outcome = "err" THEN Exit([b EXCEPT !.server = outcome], "1")
    ELSE IF outcome = "nil" THEN Exit([b EXCEPT !.server = outcome], "panic")
    ELSE [b EXCEPT !.pc = "listen", !.server = outcome, !.ready = NewIdentityService]

\* main: the server this process runs on is looked up
MainFetch ==
    /\ boot.pc = "fetch"
    /\ \/ boot' = FetchedServer(boot, "err")
       \/ /\ boot.serverID \notin Servers
          /\ boot' = FetchedServer(boot, "nil")
       \/ /\ boot.serverID \in Servers
          /\ boot' = FetchedServer(boot, "ok")
    /\ UNCHANGED <<vols, nextId, work, pc, call, last, life, sanity>>

\* main: net.Listen on the socket
MainListen ==
    /\ boot.pc = "listen"
    /\ \/ boot' = [boot EXCEPT !.pc = "register"]
       \/ boot' = Exit(boot, "1")
    /\ UNCHANGED <<vols, nextId, work, pc, call, last, life, sanity>>

\* main: the services are registered and the identity service is set ready
MainRegister ==
    /\ boot.pc = "register"
    /\ boot' = [SetReady(boot, TRUE) EXCEPT !.pc = "serve"]
    /\ UNCHANGED <<vols, nextId, work, pc, call, last, life, sanity>>

\* main: grpcServer.Serve starts to accept calls
MainServe ==
    /\ boot.pc = "serve"
    /\ boot' = [boot EXCEPT !.pc = "serving", !.serving = TRUE]
    /\ UNCHANGED <<vols, nextId, work, pc, call, last, life, sanity>>

\* main: grpcServer.Serve returned an error
MainServeFailed ==
    /\ boot.pc = "serving"
    /\ boot' = Exit(boot, "1")
    /\ UNCHANGED <<vols, nextId, work, pc, call, last, life, sanity>>

\* a process that went through main and serves calls
Serving ==
    [Booting("unix://csi.sock", "token", "1") EXCEPT
        !.pc = "serving", !.socket = "absent", !.serverID = 1, !.server = "ok",
        !.ready = TRUE, !.serving = TRUE]

\* ------------------------------------------- sanityVolumeService

\* the names the sanity test asks volumes for
SanityNames == {"a", "b", "c", "d"}
\* the IDs a Delete may name: every ID the list can hold
SanityIds == 1..Cardinality(SanityNames)

\* positions of the list whose volume has the ID id
SanityAt(id) == {i \in 1..Len(sanity) : sanity[i].id = id}

\* sanityVolumeService.Create: a taken name is refused, otherwise the volume
\* is appended with the list's length plus one as its ID
SanityCreate ==
    /\ \E n \in SanityNames :
          /\ \A i \in 1..Len(sanity) : sanity[i].name # n
          /\ sanity' = Append(sanity, [id |-> Len(sanity) + 1, name |-> n])
    /\ UNCHANGED <<vols, nextId, work, pc, call, last, life, boot>>

\* sanityVolumeService.Delete: the first volume with the ID is removed
SanityDelete ==
    /\ \E id \in SanityIds :
          /\ SanityAt(id) # {}
          /\ LET i == CHOOSE k \in SanityAt(id) : \A j \in SanityAt(id) : k <= j
             IN sanity' = SubSeq(sanity, 1, i - 1) \o SubSeq(sanity, i + 1, Len(sanity))
    /\ UNCHANGED <<vols, nextId, work, pc, call, last, life, boot>>

\* ------------------------------------------------------ specifications

\* one caller, every option
SeqWork == [callers |-> {1}, track |-> TRUE, minSizes |-> Sizes, maxSizes |-> 0..MaxSize,
            locations |-> Locations, servers |-> ServerIds, froms |-> ServerIds,
            codes |-> ErrorCodes]
\* two callers that ask for the same kind of volume and name existing servers
ConcWork == [callers |-> {1, 2}, track |-> FALSE, minSizes |-> {1}, maxSizes |-> {0},
             locations |-> {"fsn1"}, servers |-> Servers, froms |-> {1}, codes |-> {}]

InitWith(w) ==
    /\ vols = [v \in VolIds |-> NoVolume]
    /\ nextId = 1
    /\ work = w
    /\ pc = [p \in Procs |-> "idle"]
    /\ call = [p \in Procs |-> NoCall]
    /\ last = NoLast
    /\ life = 0
    /\ sanity = <<>>

Init == InitWith(ConcWork) /\ boot = Serving
InitSeq == InitWith(SeqWork) /\ boot = Serving
\* the process starts: main runs under every environment
InitMain ==
    /\ InitWith(ConcWork)
    /\ \E e \in Endpoints, t \in Tokens, i \in ServerIdEnvs : boot = Booting(e, t, i)

Next ==
    \E p \in Procs :
        \/ StartCreate(p)
        \/ CreateCall(p)
        \/ CreateWatch(p)
        \/ CreateCleanup(p)
        \/ CreateLookup(p)
        \/ StartDelete(p)
        \/ DetachGet(p)
        \/ DetachServer(p)
        \/ DetachCall(p)
        \/ DetachWatch(p)
        \/ DeleteCall(p)
        \/ StartDetach(p)
        \/ StartDetachFrom(p)
        \/ StartAttach(p)
        \/ AttachPre(p)
        \/ AttachGet(p)
        \/ AttachCall(p)
        \/ AttachWatch(p)
        \/ ActionCompletes(p)
        \/ Return(p)

\* main from its first statement until it serves or exits
MainNext ==
    \/ MainEndpoint
    \/ MainSocket
    \/ MainToken
    \/ MainServerID
    \/ MainFetch
    \/ MainListen
    \/ MainRegister
    \/ MainServe
    \/ MainServeFailed

MainSpec == InitMain /\ [][MainNext]_vars

\* the sanity test creates and deletes volumes in its in-memory backend
SanityNext ==
    \/ SanityCreate
    \/ SanityDelete

SanitySpec == Init /\ [][SanityNext]_vars

\* the callers ask for volumes and for nothing else
CreateNext ==
    \E p \in Procs :
        \/ StartCreate(p)
        \/ CreateCall(p)
        \/ CreateWatch(p)
        \/ CreateCleanup(p)
        \/ CreateLookup(p)
        \/ ActionCompletes(p)
        \/ Return(p)

\* two callers that only create, with the same options
CreateSpec == Init /\ [][CreateNext]_vars

\* two callers, interleaved at every backend call
Spec == Init /\ [][Next]_vars
\* one caller: calls run one after the other
SeqSpec == InitSeq /\ [][Next]_vars

\* ================================================================ claims

AtReturn(p, op) == pc[p] = "return" /\ call[p].op = op

\* ---- C1 ---------------------------------------------------------------
\* C1 (Create idempotence): a Create that repeats, with the same options and
\* with no call in between, a Create that returned success, and that meets
\* no backend failure, returns success with the same volume ID; and the
\* backend never holds two live volumes with the same name.
C1_CreateIdempotent ==
    /\ \A p \in Procs :
          (AtReturn(p, "Create") /\ call[p].replay /\ ~call[p].fault)
              => (call[p].err = Nil /\ call[p].id = last.id)
    /\ \A n \in Names : Cardinality(LiveByName(n)) <= 1

\* ---- C2 ---------------------------------------------------------------
\* C2 (Create conflict detection): when the backend create reports that the
\* name is taken and the existing volume is smaller than minSize, Create
\* fails with ErrVolumeAlreadyExists and returns no volume.
C2_CreateConflict ==
    \A p \in Procs :
        (/\ AtReturn(p, "Create")
         /\ call[p].createErr = ErrVolumeAlreadyExists
         /\ call[p].found # 0
         /\ call[p].foundSize < call[p].minSize)
            => (call[p].err = ErrVolumeAlreadyExists /\ call[p].id = 0)

C2_Witness ==
    /\ AtReturn(1, "Create")
    /\ call[1].createErr = ErrVolumeAlreadyExists
    /\ call[1].found # 0
    /\ call[1].foundSize < call[1].minSize
    /\ call[1].foundLoc = call[1].loc
    /\ call[1].err = ErrVolumeAlreadyExists

\* ---- C3 ---------------------------------------------------------------
\* C3 (Delete idempotence): with one caller, every Delete whose backend
\* calls meet no failure returns success, whether the volume exists, was
\* deleted by the call before or never existed; and when a Delete returns
\* success the volume is absent from the backend.
C3_DeleteIdempotent ==
    \A p \in Procs :
        AtReturn(p, "Delete") =>
            /\ ~call[p].fault => call[p].err = Nil
            /\ call[p].err = Nil => ~vols[call[p].v].live

\* the second Delete of a volume that the first one removed
C3_Witness ==
    /\ AtReturn(1, "Delete")
    /\ call[1].replay
    /\ call[1].v < nextId
    /\ call[1].delErr = ErrVolumeNotFound
    /\ call[1].err = Nil

\* ---- C4 ---------------------------------------------------------------
\* C4 (Attach idempotence): an Attach(V,S) that repeats a successful
\* Attach(V,S), and whose pre-read succeeds, returns success whatever the
\* backend attach answers, issues no detach, and leaves V attached to S.
C4_AttachIdempotent ==
    \A p \in Procs :
        (AtReturn(p, "Attach") /\ call[p].replay /\ call[p].getErr = Nil)
            => /\ call[p].err = Nil
               /\ call[p].detErr = None
               /\ call[p].pre = call[p].s
               /\ vols[call[p].v].servers = {call[p].s}

\* the replayed attach is refused by the backend and still reported as success
C4_Witness ==
    /\ AtReturn(1, "Attach")
    /\ call[1].replay
    /\ call[1].attErr = HcloudErr("Volume.Attach")
    /\ ~call[1].fault
    /\ call[1].err = Nil

\* ---- C5 ---------------------------------------------------------------
\* C5 (Attach reassignment): with one caller and V attached to S1, an
\* Attach(V,S2), S2 # S1, that returns success leaves V attached to S2 and
\* to no other server; it returns an error only if the backend attach
\* failed, and then that error; a failed detach followed by a failed attach
\* is reported as an error; and V is never attached to two servers.
C5_AttachReassign ==
    /\ \A p \in Procs :
          (/\ AtReturn(p, "Attach")
           /\ call[p].getErr = Nil
           /\ NeedsDetach(call[p].pre, call[p].s))
              => /\ call[p].detErr # None
                 /\ call[p].err = Nil =>
                       /\ vols[call[p].v].servers = {call[p].s}
                       /\ call[p].detErr = Nil
                 /\ call[p].err # Nil =>
                       /\ call[p].attErr \notin {None, Nil}
                       /\ call[p].err = call[p].attErr
                 /\ (call[p].detErr # Nil /\ call[p].attErr # Nil) => call[p].err # Nil
    /\ \A v \in VolIds : Cardinality(vols[v].servers) <= 1

C5_Witness ==
    /\ AtReturn(1, "Attach")
    /\ call[1].pre = 1
    /\ call[1].s = 2
    /\ call[1].detErr = Nil
    /\ call[1].err = Nil
    /\ vols[call[1].v].servers = {2}

\* ---- C6 ---------------------------------------------------------------
\* C6 (Detach idempotence): with one caller, a Detach of a volume that
\* exists and is attached to no server changes nothing in the backend and,
\* unless the read of the volume fails, returns success; and a Detach that
\* repeats a successful Detach and meets no backend failure returns success.
C6_DetachStep(p) ==
    /\ (/\ pc[p] = "detachGet"
        /\ call[p].op = "Detach"
        /\ vols[call[p].v].live
        /\ vols[call[p].v].servers = {})
          => /\ vols' = vols
             /\ pc'[p] = "return"
             /\ ~call'[p].fault => (call'[p].detErr = ErrNotAttached /\ call'[p].err = Nil)
    /\ (/\ pc'[p] = "return"
        /\ call'[p].op = "Detach"
        /\ call'[p].replay
        /\ ~call'[p].fault)
          => call'[p].err = Nil

C6_DetachIdempotent == [][\A p \in Procs : C6_DetachStep(p)]_vars

C6_Witness ==
    /\ AtReturn(1, "Detach")
    /\ call[1].replay
    /\ call[1].detErr = ErrNotAttached
    /\ call[1].err = Nil
    /\ vols[call[1].v].live

\* ---- C7 ---------------------------------------------------------------
\* C7 (Create/Delete race): when the backend create reports that the name is
\* taken, a concurrent Delete removes the volume, and the lookup by name,
\* itself not failing, then finds no volume, Create fails with
\* ErrVolumeAlreadyExists and has created no volume.
C7_CreateDeleteRace ==
    \A p \in Procs : \A q \in Procs \ {p} :
        (/\ AtReturn(p, "Create")
         /\ call[p].createErr = ErrVolumeAlreadyExists
         /\ ~call[p].fault
         /\ call[p].found = 0
         /\ AtReturn(q, "Delete")
         /\ call[q].delErr = Nil)
            => (call[p].err = ErrVolumeAlreadyExists /\ call[p].created = 0)

\* ---- C8 ---------------------------------------------------------------
\* C8 (Delete ignores the detach outcome): every Delete that returns has
\* called the backend detach and then the backend delete, and its result is
\* success when the backend delete returned nil or ErrVolumeNotFound and the
\* backend delete's error otherwise, whatever the detach returned.
C8_DeleteBestEffort ==
    \A p \in Procs :
        AtReturn(p, "Delete") =>
            /\ call[p].detErr # None
            /\ call[p].delErr # None
            /\ call[p].err = IF call[p].delErr \in {Nil, ErrVolumeNotFound}
                             THEN Nil
                             ELSE call[p].delErr

\* the detach failed with an error of its own and the delete went through
C8_Witness ==
    \E p \in Procs :
        /\ AtReturn(p, "Delete")
        /\ call[p].detErr = HcloudErr("Action.Detach")
        /\ call[p].delErr = HcloudErr("Volume.Delete")
        /\ call[p].err = HcloudErr("Volume.Delete")

\* ---- C9 ---------------------------------------------------------------
\* C9 (Create replay validation): when the backend create reports that the
\* name is taken and the existing volume E is found, Create returns E as
\* success exactly when E.size >= minSize, maxSize = 0 or E.size <= maxSize,
\* and E.location is the requested location; otherwise it fails with
\* ErrVolumeAlreadyExists.
C9_Compatible(c) ==
    /\ c.foundSize >= c.minSize
    /\ (c.maxSize = 0 \/ c.foundSize <= c.maxSize)
    /\ c.foundLoc = c.loc

C9_CreateReplayValidation ==
    \A p \in Procs :
        (/\ AtReturn(p, "Create")
         /\ call[p].createErr = ErrVolumeAlreadyExists
         /\ call[p].found # 0)
            => IF C9_Compatible(call[p])
               THEN call[p].err = Nil /\ call[p].id = call[p].found
               ELSE call[p].err = ErrVolumeAlreadyExists /\ call[p].id = 0

\* maxSize = 0 accepts an existing volume larger than minSize
C9_Witness ==
    /\ AtReturn(1, "Create")
    /\ call[1].found # 0
    /\ call[1].maxSize = 0
    /\ call[1].foundSize > call[1].minSize
    /\ call[1].err = Nil
    /\ call[1].id = call[1].found

\* ---- C10 --------------------------------------------------------------
\* C10 (Replayed lifecycle): with one caller, each call of the sequence
\* Create, Create, Attach(V,S), Attach(V,S), Detach(V), Detach(V), Delete(V),
\* Delete(V) that meets no backend failure returns success, and after the
\* eighth call the volume is absent from the backend.
C10_ReplayedLifecycle ==
    /\ life >= 1 => last.err = Nil
    /\ life = 8 => (last.op = "Delete" /\ ~vols[last.v].live)

\* ---- C11 --------------------------------------------------------------
\* C11 (readiness ordering): the identity service reports ready only after
\* main's lookup of its own server succeeded; main serves calls only after
\* it set the service ready; and when the lookup fails the process has
\* exited, neither ready nor serving.
C11_ReadinessOrdering ==
    /\ boot.ready => boot.server = "ok"
    /\ boot.serving => boot.ready
    /\ boot.pc \in {"endpoint", "socket", "token", "serverID", "fetch"}
          => (~boot.ready /\ ~boot.serving)
    /\ boot.server = "err"
          => (boot.pc = "exited" /\ boot.exit = "1" /\ ~boot.ready /\ ~boot.serving)

\* main looked its server up, set the identity service ready and serves
C11_Witness ==
    boot.pc = "serving" /\ boot.server = "ok" /\ boot.ready /\ boot.serving
        /\ boot.serverIdEnv = ""

\* ---- C12 --------------------------------------------------------------
\* the error that the volume service's call which started c's action returned
\* (None: that call has not returned yet)
C12_Returned(c) ==
    IF c.act = "create" THEN c.createErr
    ELSE IF c.act = "attach" THEN c.attErr
    ELSE c.detErr

\* C12 (synchronous await): once the volume service's Create, Attach or
\* Detach that started a backend action has returned, the action is over; it
\* returned success exactly if the action succeeded, and the action's error
\* if the action failed.
C12_SynchronousAwait ==
    \A p \in Procs :
        LET c == call[p] IN
        (c.act # None /\ C12_Returned(c) # None)
            => /\ c.status \in {"success", "error"}
               /\ c.status = "success" <=> C12_Returned(c) = Nil
               /\ c.status = "error" =>
                     C12_Returned(c) \in {HcloudErr("Action.Create"),
                                          HcloudErr("Action.Attach"),
                                          HcloudErr("Action.Detach")}

\* an Attach whose detach action failed and whose attach action succeeded,
\* while the other caller still waits for an action of its own
C12_Witness ==
    /\ AtReturn(1, "Attach")
    /\ call[1].detErr = HcloudErr("Action.Detach")
    /\ call[1].act = "attach" /\ call[1].status = "success" /\ call[1].attErr = Nil
    /\ call[2].status = "running"

C14_DetachBeforeReattach ==
    \A p \in Procs :
        LET c == call[p] IN
        /\ c.op = "Attach" => (c.detCalls <= 1 /\ c.attCalls <= 1)
        /\ (AtReturn(p, "Attach") /\ c.getErr = Nil)
              => /\ c.detCalls = (IF c.pre \notin {0, c.s} THEN 1 ELSE 0)
                 /\ c.detCalls = 1 <=> c.detErr # None
                 /\ c.attCalls = 1
                 /\ c.attErr # None

\* the volume was attached to server 1, the detach failed, and the attach to
\* server 2 was still called, once
C14_Witness ==
    \E p \in Procs :
        /\ AtReturn(p, "Attach")
        /\ call[p].pre = 1 /\ call[p].s = 2
        /\ call[p].detCalls = 1 /\ call[p].detErr = HcloudErr("Action.Detach")
        /\ call[p].attCalls = 1 /\ call[p].attErr # None

\* ---- C15 --------------------------------------------------------------
\* C15 (attach error propagation): when the backend attach failed and the
\* pre-read did not show the volume attached to the requested server, Attach
\* returns the backend attach's error as it is, ErrAttachLimitReached and
\* ErrServerNotFound included, and not the error of the detach before it.
C15_AttachErrorPropagation ==
    \A p \in Procs :
        LET c == call[p] IN
        (AtReturn(p, "Attach") /\ c.attErr \notin {None, Nil} /\ c.pre # c.s)
            => /\ c.err = c.attErr
               /\ c.detErr # c.attErr => c.err # c.detErr

\* the detach from server 1 failed, and the attach was refused for the limit
C15_Witness ==
    \E p \in Procs :
        /\ AtReturn(p, "Attach")
        /\ call[p].pre = 1 /\ call[p].s = 2
        /\ call[p].detErr = HcloudErr("Volume.Detach")
        /\ call[p].attErr = ErrAttachLimitReached
        /\ call[p].err = ErrAttachLimitReached

\* ---- C16 --------------------------------------------------------------
\* the step in which p's Attach gets the result of its pre-read
C16_PreReadStep(p) ==
    (pc[p] = "attachPre" /\ pc'[p] # "attachPre")
        => /\ vols' = vols
           /\ call'[p].getErr # None
           /\ call'[p].getErr # Nil
                 => /\ pc'[p] = "return"
                    /\ call'[p].err = call'[p].getErr
                    /\ call'[p].detCalls = 0 /\ call'[p].attCalls = 0
                    /\ call'[p].detErr = None /\ call'[p].attErr = None

\* C16 (Attach reads before it writes): the first backend call of Attach is
\* the read of the volume by ID, which changes nothing in the backend; when
\* that read fails, ErrVolumeNotFound included, Attach returns the read's
\* error and has called neither detach nor attach.
C16_AttachReadsFirst == [][\A p \in Procs : C16_PreReadStep(p)]_vars

\* an Attach of a volume that does not exist
C16_Witness ==
    \E p \in Procs :
        /\ AtReturn(p, "Attach")
        /\ call[p].getErr = ErrVolumeNotFound
        /\ call[p].err = ErrVolumeNotFound
        /\ call[p].attCalls = 0
        /\ \E q \in Procs \ {p} : call[q].status = "running"

\* ---- C17 --------------------------------------------------------------
\* C17 as stated (Attach success is truthful): whenever Attach(V, S) returns
\* success, V is attached to S in the backend at the moment the call
\* returns, whatever other calls ran meanwhile.
C17_AttachTruthful ==
    \A p \in Procs :
        (AtReturn(p, "Attach") /\ call[p].err = Nil)
            => vols[call[p].v].servers = {call[p].s}

\* C17 as amended: whenever Attach(V, S) returns success and no other
\* Attach, Detach or Delete for V overlapped with the call, V is attached to
\* S in the backend at the moment the call returns; this holds on the path
\* on which the backend attach failed and the pre-read decided, too.
C17_AttachTruthfulAlone ==
    \A p \in Procs :
        (AtReturn(p, "Attach") /\ call[p].err = Nil /\ call[p].alone)
            => vols[call[p].v].servers = {call[p].s}

\* an Attach that no call for its volume overlapped, whose backend attach
\* failed and which returns success for what its pre-read showed, while the
\* other caller is busy with another volume
C17_Witness ==
    \E p \in Procs :
        /\ AtReturn(p, "Attach") /\ call[p].err = Nil /\ call[p].alone
        /\ call[p].attErr \notin {None, Nil}
        /\ call[p].pre = call[p].s
        /\ \E q \in Procs \ {p} : ~Idle(q) /\ call[q].alone

\* ---- C18 --------------------------------------------------------------
\* C18 (Create success is truthful under overlapping retries): with two
\* callers that run Create with the same options concurrently and no caller
\* ever asking for a Delete, a Create that returns success returns a volume
\* that exists in the backend, under the requested name, when the call
\* returns.
C18_CreateTruthful ==
    \A p \in Procs :
        (AtReturn(p, "Create") /\ call[p].err = Nil)
            => /\ call[p].id \in VolIds
               /\ vols[call[p].id].live
               /\ vols[call[p].id].name = call[p].name

\* ---- C19 --------------------------------------------------------------
\* C19 (failed create is cleaned up): a Create whose request the backend
\* accepted and whose create action failed has called the backend delete
\* once, for the volume it created, and returns the action's error and no
\* volume, whether that delete succeeded or not; a Create whose action
\* did not fail calls no delete.
C19_FailedCreateCleanedUp ==
    \A p \in Procs :
        LET c == call[p] IN
        /\ c.cleanups <= 1
        /\ AtReturn(p, "Create")
              => IF c.act = "create" /\ c.status = "error"
                 THEN /\ c.cleanups = 1
                      /\ c.cleanupErr # None
                      /\ c.created \in VolIds
                      /\ c.err = HcloudErr("Action.Create")
                      /\ c.id = 0
                 ELSE c.cleanups = 0

\* the create action failed and so did the cleanup: the volume is left in
\* the backend and the caller gets the action's error
C19_Witness ==
    \E p \in Procs :
        /\ AtReturn(p, "Create")
        /\ call[p].status = "error"
        /\ call[p].cleanupErr = HcloudErr("Volume.Delete")
        /\ vols[call[p].created].live
        /\ call[p].err = HcloudErr("Action.Create")

\* ---- C20 --------------------------------------------------------------
\* C20 (server-scoped detach): a call of the volume service's Detach that
\* names a server, on an existing volume and with no backend failure, asks
\* the backend to detach only if the volume is attached to that server, and
\* then the volume ends up detached; for an unattached volume it returns
\* ErrNotAttached, else for a server that does not exist ErrServerNotFound,
\* else for a volume attached to another server ErrAlreadyAttached, in these
\* three cases without a detach request and with the attachment as it was.
C20_ScopedDetach ==
    \A p \in Procs :
        LET c == call[p]
            now == vols[c.v].servers
        IN
        (AtReturn(p, "DetachFrom") /\ ~c.fault /\ c.detErr # ErrVolumeNotFound)
            => /\ c.act = "detach" <=> (c.read = c.from /\ c.from \in Servers)
               /\ c.act = "detach" => (c.err = Nil /\ now = {})
               /\ c.err = ErrNotAttached <=> c.read = 0
               /\ c.err = ErrNotAttached => (c.act = None /\ now = {})
               /\ c.err = ErrServerNotFound <=> (c.read # 0 /\ c.from \notin Servers)
               /\ c.err = ErrServerNotFound => (c.act = None /\ now = {c.read})
               /\ c.err = ErrAlreadyAttached
                     <=> (c.read # 0 /\ c.from \in Servers /\ c.read # c.from)
               /\ c.err = ErrAlreadyAttached => (c.act = None /\ now = {c.read})
               /\ c.err \in {Nil, ErrNotAttached, ErrServerNotFound, ErrAlreadyAttached}

\* the volume is attached to server 1 and the call names server 2
C20_Witness ==
    /\ AtReturn(1, "DetachFrom")
    /\ call[1].from = 2
    /\ call[1].err = ErrAlreadyAttached
    /\ vols[call[1].v].servers = {1}

\* ---- C21 --------------------------------------------------------------
\* what a method of the volume service must return into field f for what the
\* client call at site handed it, as the claim lists it
C21_Expected(f, site, raw) ==
    IF f = "createErr" /\ site = "Volume.Create" /\ raw = UniquenessError
    THEN ErrVolumeAlreadyExists
    ELSE IF f = "delErr" /\ site = "Volume.Delete" /\ raw = NotFoundError
    THEN ErrVolumeNotFound
    ELSE IF f \in {"getErr", "attErr", "detErr"} /\ raw = NilVolume
    THEN ErrVolumeNotFound
    ELSE IF f = "attErr" /\ raw = NilServer
    THEN ErrServerNotFound
    ELSE IF f = "attErr" /\ site = "Volume.Attach" /\ raw = LimitExceededError
    THEN ErrAttachLimitReached
    ELSE raw

\* C21 (backend error classification): whatever the hcloud client handed to
\* a method of the volume service, the method returns ErrVolumeAlreadyExists
\* for a uniqueness error on create, ErrVolumeNotFound for a not-found error
\* on delete and for a missing volume on get, attach and detach,
\* ErrServerNotFound for a missing server on attach, ErrAttachLimitReached
\* for a limit-exceeded error on attach, and every other error as it is:
\* never success, and never one of these kinds.
C21_ErrorClassification ==
    \A p \in Procs : \A f \in ErrFields :
        LET c == call[p]
            raw == c.raws[f]
        IN raw # None
            => /\ c[f] = C21_Expected(f, c.sites[f], raw)
               /\ c[f] = Nil <=> raw = Nil
               /\ (raw \in ErrorCodes /\ C21_Expected(f, c.sites[f], raw) = raw)
                     => c[f] \notin {ErrVolumeAlreadyExists, ErrVolumeNotFound,
                                     ErrServerNotFound, ErrAttachLimitReached}

\* the backend answered the attach with a not-found error, which Attach
\* returns as it is and not as ErrVolumeNotFound
C21_Witness ==
    /\ AtReturn(1, "Attach")
    /\ call[1].sites["attErr"] = "Volume.Attach"
    /\ call[1].raws["attErr"] = NotFoundError
    /\ call[1].attErr = NotFoundError
    /\ call[1].err = NotFoundError

\* ---- C22 --------------------------------------------------------------
\* C22 (volume IDs of the in-memory test backend): after any sequence of
\* Create and Delete calls no two volumes in the list have the same ID, and
\* a call leaves the ID of every volume that stays in the list as it was.
C22_SanityIds ==
    [][/\ \A i \in 1..Len(sanity') : \A j \in 1..Len(sanity') :
             sanity'[i].id = sanity'[j].id => i = j
       /\ \A i \in 1..Len(sanity) : \A j \in 1..Len(sanity') :
             sanity[i].name = sanity'[j].name => sanity[i].id = sanity'[j].id]_vars

====
